---------------------------- MODULE Spec2Model ----------------------------
(***************************************************************************)
(* Model of scripts/push-hz-prices.py: one run of the script that derives  *)
(* per-CPU and per-memory hourly rates from the Hetzner Cloud inventory    *)
(* and posts them to Coroot's custom cloud pricing endpoint.               *)
(*                                                                         *)
(* The script is one sequential module body.  The model cuts it at the     *)
(* network calls, whose responses are the run's inputs: each action is the *)
(* call together with the code that runs up to the next call.  Money is    *)
(* counted in integer units of 1/10000 EUR and the derived rates are exact *)
(* rationals [num, den]; the rounding of Python's float is not modelled.   *)
(***************************************************************************)
EXTENDS Integers, Sequences, FiniteSets, TLC

VARIABLES
    environ,         \* os.environ: the four variables the script reads
    pc,              \* position of the run in the module body
    exit_code,       \* process exit status "0" or "1"; Unset while the run is alive
    diagnostic,      \* what the run died of: sys.exit message or exception class
    requests,        \* every request issued so far, in order, with its outcome
    price_lookup,    \* lines 85-94
    servers,         \* line 97
    total_hourly,    \* line 104
    total_vcpus,     \* line 105
    total_ram_gb,    \* line 106
    per_memory,      \* line 137
    per_cpu,         \* line 138
    COROOT_PROJECT,  \* line 39, reassigned on lines 161 and 172
    projects,        \* line 159
    resp             \* line 170

vars == <<environ, pc, exit_code, diagnostic, requests, price_lookup, servers,
          total_hourly, total_vcpus, total_ram_gb, per_memory, per_cpu,
          COROOT_PROJECT, projects, resp>>

-----------------------------------------------------------------------------
(* Bounds of the model *)

MaxServers == 2      \* longest server list the inventory endpoint returns
MaxProjects == 2     \* longest project list the list endpoint returns

-----------------------------------------------------------------------------
(* Python values *)

Unset == "<unset>"     \* an environment variable or a dict key that is absent

\* bool(s) of a string-or-None value
Truthy(s) == s # Unset /\ s # ""

\* os.environ.get(var, default)
EnvGet(env, var, default) == IF env[var] = Unset THEN default ELSE env[var]

EnvValues == {Unset, "", "set"}
ProjectEnvValues == {Unset, "", "myproject"}

RequiredVars == <<"HETZNER_TOKEN", "COROOT_EMAIL", "COROOT_PASSWORD">>

\* lines 34-36: the first required variable that is unset or empty, 0 if none
FirstMissingFrom(env, i) ==
    LET Miss == {k \in i..Len(RequiredVars) : ~Truthy(EnvGet(env, RequiredVars[k], Unset))}
    IN  IF Miss = {} THEN 0 ELSE CHOOSE k \in Miss : \A m \in Miss : k <= m

FirstMissing(env) == FirstMissingFrom(env, 1)

-----------------------------------------------------------------------------
(* Exact rationals, standing for the script's float values.  An operation takes its
   operands as values, the way Python evaluates the arguments of a call once: each
   operand is bound by a one-element set before it is used. *)

RECURSIVE GCD(_, _)
GCD(a, b) == IF b = 0 THEN a ELSE CHOOSE g \in {GCD(b, m) : m \in {a % b}} : TRUE

Abs(x) == IF x < 0 THEN -x ELSE x

Rat(n, d) == [num |-> n, den |-> d]

RatNorm(r) ==
    CHOOSE q \in {IF g = 0 THEN v ELSE Rat(v.num \div g, v.den \div g) :
                     <<v, g>> \in {<<w, GCD(Abs(w.num), w.den)>> : w \in {r}}} : TRUE

RatMul(a, b) ==
    CHOOSE q \in {LET g1 == GCD(Abs(x.num), y.den)
                      g2 == GCD(Abs(y.num), x.den)
                      h1 == IF g1 = 0 THEN 1 ELSE g1
                      h2 == IF g2 = 0 THEN 1 ELSE g2
                  IN  RatNorm(Rat((x.num \div h1) * (y.num \div h2),
                                  (x.den \div h2) * (y.den \div h1))) :
                     x \in {a}, y \in {b}} : TRUE

RatAdd(a, b) ==
    CHOOSE q \in {LET g == GCD(x.den, y.den)
                      l == (x.den \div g) * y.den
                  IN  RatNorm(Rat(x.num * (l \div x.den) + y.num * (l \div y.den), l)) :
                     x \in {a}, y \in {b}} : TRUE

RatSub(a, b) == RatAdd(a, Rat(-b.num, b.den))

RatOfInt(n) == Rat(n, 1)

RatZero == Rat(0, 1)

\* line 43: CPU_MEMORY_RATIO = 0.03465 / 0.003938 = 34650 / 3938
RatioNum == 34650
RatioDen == 3938
CPU_MEMORY_RATIO == RatNorm(Rat(RatioNum, RatioDen))

-----------------------------------------------------------------------------
(* Process exit *)

\* How a step of the script ends: where the run goes on, or the exit status and
\* what was written to stderr

\* the run goes on at position next
Resume(next) == [pc |-> next, code |-> Unset, diagnostic |-> ""]

\* sys.exit(message): the message goes to stderr, the status is 1
SysExit(message) == [pc |-> "exited", code |-> "1", diagnostic |-> message]

\* an exception nobody catches: traceback on stderr, the status is 1
Uncaught(exc) == [pc |-> "exited", code |-> "1", diagnostic |-> exc]

\* the end of the file is reached: the status is 0
Finished == [pc |-> "exited", code |-> "0", diagnostic |-> ""]

\* line 36
ConfigError(k) ==
    CASE k = 1 -> "error: HETZNER_TOKEN not set"
      [] k = 2 -> "error: COROOT_EMAIL not set"
      [] OTHER -> "error: COROOT_PASSWORD not set"

EmptyInventory == "error: no active servers found in Hetzner account"
NoPriceableServers == "error: could not resolve pricing for any active server"
ProjectDiscoveryError ==
    "error: could not auto-discover project name. Set COROOT_PROJECT env var explicitly."

-----------------------------------------------------------------------------
(* The Hetzner API: hetzner_get and the two payloads *)

ServerTypeNames == {"cx22", "cx32"}
Locations == {"fsn1", "nbg1"}

\* one element of st["prices"], with float(p["price_hourly"]["net"]) in 1/10000 EUR
Price(location, hourly) == [location |-> location, hourly |-> hourly]

\* one element of pricing["server_types"]
ServerType(name, prices) == [name |-> name, prices |-> prices]

\* pricing catalogs the provider may return: empty, one type at one location, two
\* types with a free one, the same type listed twice, a location listed twice
PricingCatalogs ==
    { <<>>,
      <<ServerType("cx22", <<Price("fsn1", 5)>>)>>,
      <<ServerType("cx22", <<Price("fsn1", 5), Price("nbg1", 7)>>),
        ServerType("cx32", <<Price("fsn1", 0)>>)>>,
      <<ServerType("cx22", <<Price("fsn1", 5)>>),
        ServerType("cx22", <<Price("nbg1", 9)>>)>>,
      <<ServerType("cx32", <<Price("fsn1", 9), Price("fsn1", 11)>>),
        ServerType("cx22", <<>>)>> }

\* one element of the inventory: server_type.name, server_type.cores,
\* server_type.memory and datacenter.location.name
Server(stype, vcpus, ram_gb, location) ==
    [stype |-> stype, vcpus |-> vcpus, ram_gb |-> ram_gb, location |-> location]

ServerRecords ==
    { Server("cx22", 2, 4, "fsn1"), Server("cx22", 2, 4, "nbg1"),
      Server("cx32", 4, 8, "fsn1") }

SeqsUpTo(S, n) == UNION {[1..k -> S] : k \in 0..n}

Inventories == SeqsUpTo(ServerRecords, MaxServers)

\* what urlopen gets for a Hetzner request: status 0 stands for no response at all
\* (the connection failed or the 15 s timeout passed)
HetznerResponses(payloads) ==
    {[status |-> st, payload |-> <<>>] : st \in {0, 401, 503}}
        \cup {[status |-> 200, payload |-> p] : p \in payloads}

\* lines 48-54: hetzner_get catches nothing: URLError and HTTPError pass through
HetznerGet(response) ==
    CASE response.status = 0 -> [raised |-> "URLError", value |-> <<>>]
      [] response.status >= 300 -> [raised |-> "HTTPError", value |-> <<>>]
      [] OTHER -> [raised |-> "", value |-> response.payload]

\* a dict as a function on the keys that were stored
EmptyDict == [k \in {} |-> 0]

DictPut(d, k, v) == [x \in (DOMAIN d) \cup {k} |-> IF x = k THEN v ELSE d[x]]

\* lines 87-91: the inner dict comprehension; a location listed again replaces the
\* earlier entry
RECURSIVE PricesByLocation(_)
PricesByLocation(prices) ==
    IF prices = <<>> THEN EmptyDict
    ELSE LET n == Len(prices)
         IN  DictPut(PricesByLocation(SubSeq(prices, 1, n - 1)),
                     prices[n].location, [hourly |-> prices[n].hourly])

\* lines 85-94: the outer dict comprehension; a server type listed again replaces
\* the earlier one whole
RECURSIVE BuildPriceLookup(_)
BuildPriceLookup(server_types) ==
    IF server_types = <<>> THEN EmptyDict
    ELSE LET n == Len(server_types)
         IN  DictPut(BuildPriceLookup(SubSeq(server_types, 1, n - 1)),
                     server_types[n].name, PricesByLocation(server_types[n].prices))

-----------------------------------------------------------------------------
(* The Coroot API: JSON values, HTTP responses and coroot_request *)

\* a parsed JSON value; Python's None is the JSON null
Json(kind, items) == [j |-> kind, items |-> items]
JsonNull == Json("null", <<>>)
JsonDict == Json("dict", <<>>)             \* an object with at least one key
JsonEmptyDict == Json("empty_dict", <<>>)  \* {}
JsonList(items) == Json("list", items)

\* bool(value)
JsonTruthy(value) ==
    CASE value.j = "null" -> FALSE
      [] value.j = "empty_dict" -> FALSE
      [] value.j = "list" -> value.items # <<>>
      [] OTHER -> TRUE

\* one element of the project list: an object with an optional name and an optional
\* id, or a value that is no object (a string, a number, null)
ProjectEntry(name, id) == [is_dict |-> TRUE, name |-> name, id |-> id]
NotADict == [is_dict |-> FALSE, name |-> Unset, id |-> Unset]

ProjectNames == {Unset, "", "prod"}
ProjectIds == {Unset, "", "p1"}
ProjectEntries == {ProjectEntry(n, i) : n \in ProjectNames, i \in ProjectIds} \cup {NotADict}

ProjectLists == SeqsUpTo(ProjectEntries, MaxProjects)

\* an HTTP exchange as urlopen sees it: status 0 stands for no response at all (the
\* connection failed or the 15 s timeout passed); text is what the body is made of
Response(status, text, json) == [status |-> status, text |-> text, json |-> json]

NoResponse == Response(0, "empty", JsonNull)
ErrorStatus(status) == Response(status, "garbage", JsonNull)
EmptyBody == Response(200, "empty", JsonNull)
BlankBody == Response(200, "blank", JsonNull)
GarbageBody == Response(200, "garbage", JsonNull)
JsonBody(value) == Response(200, "json", value)

LoginResponses ==
    {NoResponse, ErrorStatus(401), ErrorStatus(500), EmptyBody, GarbageBody, JsonBody(JsonDict)}

ListResponses ==
    {NoResponse, ErrorStatus(404), ErrorStatus(500), EmptyBody, GarbageBody,
     JsonBody(JsonNull), JsonBody(JsonDict)}
        \cup {JsonBody(JsonList(items)) : items \in ProjectLists}

ProbeResponses ==
    {NoResponse, ErrorStatus(404), ErrorStatus(500), EmptyBody, BlankBody, GarbageBody,
     JsonBody(JsonNull), JsonBody(JsonDict), JsonBody(JsonEmptyDict)}

UpdateResponses ==
    {NoResponse, ErrorStatus(400), ErrorStatus(500), EmptyBody, GarbageBody, JsonBody(JsonDict)}

\* the result of a call: the exception it raised ("" if none) and the value returned
Raised(exc) == [raised |-> exc, value |-> JsonNull]
Returned(value) == [raised |-> "", value |-> value]

\* coroot_request with the HTTPError handler returning None instead of raising
CorootRequestSwallowsHttpError(response) ==
    CASE response.status = 0 -> Raised("URLError")
      [] response.status >= 300 -> Returned(JsonNull)
      [] response.text \in {"empty", "blank"} -> Returned(JsonNull)
      [] response.text = "garbage" -> Raised("JSONDecodeError")
      [] OTHER -> Returned(response.json)

\* lines 62-77: only HTTPError is caught and re-raised as RuntimeError; a transport
\* failure (URLError) and a body that is no JSON (JSONDecodeError) pass through; an
\* empty or blank body gives None
CorootRequest(response) ==
    CASE response.status = 0 -> Raised("URLError")
      [] response.status >= 300 -> Raised("RuntimeError")
      [] response.text \in {"empty", "blank"} -> Returned(JsonNull)
      [] response.text = "garbage" -> Raised("JSONDecodeError")
      [] OTHER -> Returned(response.json)

\* line 166: every exception the try body can raise derives from Exception
CaughtByExceptException(exc) == exc # ""

\* line 175
CaughtByExceptRuntimeError(exc) == exc = "RuntimeError"

-----------------------------------------------------------------------------
(* Step 5: project discovery *)

\* line 161 with the two keys swapped: projects[0].get("id") or projects[0].get("name", "default")
PickProjectPrefersId(entry) ==
    IF Truthy(entry.id) THEN entry.id
    ELSE IF entry.name = Unset THEN "default" ELSE entry.name

\* line 161: projects[0].get("name") or projects[0].get("id", "default")
PickProject(entry) ==
    IF Truthy(entry.name) THEN entry.name
    ELSE IF entry.id = Unset THEN "default" ELSE entry.id

\* line 162: the list printed for the operator calls .get on every entry
PrintFoundRaises(items) == \E i \in 1..Len(items) : ~items[i].is_dict

\* lines 159-165, the body of the try: the exception it ends with ("" if none) and
\* the values of projects and COROOT_PROJECT it leaves behind
TryListBody(got, old_projects, old_project) ==
    IF got.raised # ""
    THEN [raised |-> got.raised, projects |-> old_projects, project |-> old_project]
    ELSE LET list == IF JsonTruthy(got.value) THEN got.value ELSE JsonList(<<>>)
         IN  IF list.j = "list" /\ list.items # <<>>
             THEN IF ~list.items[1].is_dict
                  THEN [raised |-> "AttributeError", projects |-> list, project |-> old_project]
                  ELSE [raised |-> IF PrintFoundRaises(list.items) THEN "AttributeError" ELSE "",
                        projects |-> list,
                        project |-> PickProject(list.items[1])]
             ELSE [raised |-> "ValueError", projects |-> list, project |-> old_project]

\* lines 158-167: the try statement: whatever its body raises is caught and sends
\* the run to the probe
ListBranch(got, old_projects, old_project) ==
    LET body == TryListBody(got, old_projects, old_project)
    IN  [step |-> IF body.raised = "" THEN Resume("update")
                  ELSE IF CaughtByExceptException(body.raised) THEN Resume("probe")
                  ELSE Uncaught(body.raised),
         projects |-> body.projects,
         project |-> body.project]

\* the probe with line 171 written "if resp:"
ProbeBranchTestsTruth(got, old_project) ==
    IF got.raised # ""
    THEN IF CaughtByExceptRuntimeError(got.raised)
         THEN [step |-> SysExit(ProjectDiscoveryError), project |-> old_project]
         ELSE [step |-> Uncaught(got.raised), project |-> old_project]
    ELSE IF JsonTruthy(got.value)
         THEN [step |-> Resume("update"), project |-> "default"]
         ELSE [step |-> SysExit(ProjectDiscoveryError), project |-> old_project]

\* lines 168-181: the loop over the one candidate and its else clause: how the step
\* ends and the value of COROOT_PROJECT
ProbeBranch(got, old_project) ==
    IF got.raised # ""
    THEN IF CaughtByExceptRuntimeError(got.raised)
         THEN [step |-> SysExit(ProjectDiscoveryError), project |-> old_project]
         ELSE [step |-> Uncaught(got.raised), project |-> old_project]
    ELSE IF got.value # JsonNull
         THEN [step |-> Resume("update"), project |-> "default"]
         ELSE [step |-> SysExit(ProjectDiscoveryError), project |-> old_project]

\* lines 185: the path of the custom pricing endpoint, by its segments
PricingEndpoint(project) == <<"api", "project", project, "custom_cloud_pricing">>

\* line 170
OverviewEndpoint(candidate) == <<"api", "project", candidate, "overview">>

-----------------------------------------------------------------------------
(* Steps 2 and 3: aggregation and rate derivation *)

\* line 114: price_lookup.get(stype, {}).get(location) is a non-empty dict, which
\* line 116 tests for truth, exactly when both keys are present
HasPrice(lookup, server) ==
    /\ server.stype \in DOMAIN lookup
    /\ server.location \in DOMAIN lookup[server.stype]

Totals(hourly, vcpus, ram_gb) == [hourly |-> hourly, vcpus |-> vcpus, ram_gb |-> ram_gb]

\* the loop body with the skip zero-filling the price instead of leaving the server out
AddServerZeroFill(totals, lookup, server) ==
    Totals(totals.hourly + (IF HasPrice(lookup, server)
                            THEN lookup[server.stype][server.location].hourly ELSE 0),
           totals.vcpus + server.vcpus,
           totals.ram_gb + server.ram_gb)

\* the loop body with line 120 written "total_hourly -= prices["hourly"]"
AddServerSubtracts(totals, lookup, server) ==
    IF ~HasPrice(lookup, server)
    THEN totals
    ELSE Totals(totals.hourly - lookup[server.stype][server.location].hourly,
                totals.vcpus + server.vcpus,
                totals.ram_gb + server.ram_gb)

\* lines 110-122: one pass of the loop body
AddServer(totals, lookup, server) ==
    IF ~HasPrice(lookup, server)
    THEN totals
    ELSE Totals(totals.hourly + lookup[server.stype][server.location].hourly,
                totals.vcpus + server.vcpus,
                totals.ram_gb + server.ram_gb)

\* lines 104-126: the loop over servers, from the zero totals
RECURSIVE Aggregate(_, _)
Aggregate(lookup, list) ==
    IF list = <<>> THEN Totals(0, 0, 0)
    ELSE LET n == Len(list)
         IN  AddServer(Aggregate(lookup, SubSeq(list, 1, n - 1)), lookup, list[n])

\* line 137: CPU_MEMORY_RATIO * total_vcpus + total_ram_gb
Denominator(vcpus, ram_gb) ==
    RatAdd(RatMul(CPU_MEMORY_RATIO, RatOfInt(vcpus)), RatOfInt(ram_gb))

\* division of one rational by another that is not zero
RatDiv(a, b) ==
    IF b.num < 0 THEN RatMul(a, Rat(-b.den, -b.num)) ELSE RatMul(a, Rat(b.den, b.num))

\* line 137
PerMemory(hourly, vcpus, ram_gb) == RatDiv(RatOfInt(hourly), Denominator(vcpus, ram_gb))

\* line 138
PerCpu(memory_rate) == RatMul(CPU_MEMORY_RATIO, memory_rate)

\* line 145, over the rationals: the reconstruction error is zero
ReconstructionHolds(cpu_rate, memory_rate, hourly, vcpus, ram_gb) ==
    RatSub(RatAdd(RatMul(cpu_rate, RatOfInt(vcpus)), RatMul(memory_rate, RatOfInt(ram_gb))),
           RatOfInt(hourly)) = RatZero

-----------------------------------------------------------------------------
(* The run *)

NoBody == [kind |-> "none", cpu |-> RatZero, memory |-> RatZero]

\* line 150: {"email": ..., "password": ...}
LoginBody == [kind |-> "credentials", cpu |-> RatZero, memory |-> RatZero]

\* line 187: {"per_cpu_core": per_cpu, "per_memory_gb": per_memory}
RatesBody(cpu_rate, memory_rate) == [kind |-> "rates", cpu |-> cpu_rate, memory |-> memory_rate]

\* one entry of the request log: what was sent, the HTTP status that came back (0 for
\* none) and what the call did: "ok" if it returned, else the exception it raised
Request(api, method, path, body, status, got) ==
    [api |-> api, method |-> method, path |-> path, body |-> body, status |-> status,
     outcome |-> IF got.raised = "" THEN "ok" ELSE got.raised]

Init ==
    /\ environ \in [HETZNER_TOKEN : EnvValues, COROOT_EMAIL : EnvValues,
                     COROOT_PASSWORD : EnvValues, COROOT_PROJECT : ProjectEnvValues]
    /\ pc = "config"
    /\ exit_code = Unset
    /\ diagnostic = ""
    /\ requests = <<>>
    /\ price_lookup = EmptyDict
    /\ servers = <<>>
    /\ total_hourly = 0
    /\ total_vcpus = 0
    /\ total_ram_gb = 0
    /\ per_memory = RatZero
    /\ per_cpu = RatZero
    /\ COROOT_PROJECT = ""
    /\ projects = JsonNull
    /\ resp = JsonNull

Goto(step) ==
    /\ pc' = step.pc
    /\ exit_code' = step.code
    /\ diagnostic' = step.diagnostic

\* line 35 written "if os.environ.get(var) is None": an empty value passes
AfterConfigTestsNone(env) ==
    IF \E k \in 1..Len(RequiredVars) : env[RequiredVars[k]] = Unset
    THEN SysExit(ConfigError(CHOOSE k \in 1..Len(RequiredVars) :
                                 /\ env[RequiredVars[k]] = Unset
                                 /\ \A m \in 1..(k - 1) : env[RequiredVars[m]] # Unset))
    ELSE Resume("fetch_pricing")

\* lines 34-36
AfterConfig(env) ==
    IF FirstMissing(env) # 0
    THEN SysExit(ConfigError(FirstMissing(env)))
    ELSE Resume("fetch_pricing")

\* line 83 wrapped in a try that swallows the exception
AfterFetchPricingIgnoresFailure(got) == Resume("fetch_servers")

\* line 83 with urlopen called without timeout=15: a call that gets no response
\* never returns
AfterFetchPricingBlocks(got) ==
    IF got.raised = "URLError" THEN Resume("blocked")
    ELSE IF got.raised # "" THEN Uncaught(got.raised)
    ELSE Resume("fetch_servers")

\* line 83: an exception of hetzner_get ends the run
AfterFetchPricing(got) ==
    IF got.raised # "" THEN Uncaught(got.raised) ELSE Resume("fetch_servers")

\* lines 97-98 without the test for an empty list
AfterFetchServersKeepsEmpty(got) ==
    IF got.raised # "" THEN Uncaught(got.raised) ELSE Resume("aggregate")

\* line 97 inside a "while True" that repeats the call until it returns
AfterFetchServersRetries(got) ==
    IF got.raised # "" THEN Resume("fetch_servers")
    ELSE IF got.value = <<>> THEN SysExit(EmptyInventory)
    ELSE Resume("aggregate")

\* lines 97-100
AfterFetchServers(got) ==
    IF got.raised # "" THEN Uncaught(got.raised)
    ELSE IF got.value = <<>> THEN SysExit(EmptyInventory)
    ELSE Resume("aggregate")

\* line 128 written "if total_vcpus < 0"
AfterAggregateTestsNegative(totals) ==
    IF totals.vcpus < 0 THEN SysExit(NoPriceableServers) ELSE Resume("derive")

\* lines 128-129
AfterAggregate(totals) ==
    IF totals.vcpus = 0 THEN SysExit(NoPriceableServers) ELSE Resume("derive")

\* lines 137-145: the division raises on a zero denominator, the assert on a
\* reconstruction that is off
AfterDerive(hourly, vcpus, ram_gb) ==
    IF Denominator(vcpus, ram_gb) = RatZero
    THEN Uncaught("ZeroDivisionError")
    ELSE IF ReconstructionHolds(PerCpu(PerMemory(hourly, vcpus, ram_gb)),
                                PerMemory(hourly, vcpus, ram_gb), hourly, vcpus, ram_gb)
         THEN Resume("login")
         ELSE Uncaught("AssertionError")

\* the login call wrapped so that its failure is only reported
AfterLoginIgnoresFailure(got, project) ==
    IF project = "" THEN Resume("list_projects") ELSE Resume("update")

\* line 155 without its test: discovery runs whatever COROOT_PROJECT holds
AfterLoginAlwaysDiscovers(got, project) ==
    IF got.raised # "" THEN Uncaught(got.raised) ELSE Resume("list_projects")

\* lines 150-155: an exception of the login call ends the run; step 5 is entered
\* only when COROOT_PROJECT is empty
AfterLogin(got, project) ==
    IF got.raised # "" THEN Uncaught(got.raised)
    ELSE IF project = "" THEN Resume("list_projects")
    ELSE Resume("update")

\* the update repeated when the server rejects it
AfterUpdateRetries(got) ==
    IF got.raised = "RuntimeError" THEN Resume("update")
    ELSE IF got.raised # "" THEN Uncaught(got.raised)
    ELSE Finished

\* the update call wrapped so that its failure is only reported
AfterUpdateIgnoresFailure(got) == Finished

\* lines 187-188: an exception of the update call ends the run, else the file ends
AfterUpdate(got) ==
    IF got.raised # "" THEN Uncaught(got.raised) ELSE Finished

\* lines 30-39: read the environment, stop on the first missing credential
Config ==
    /\ pc = "config"
    /\ Goto(AfterConfig(environ))
    /\ COROOT_PROJECT' = IF AfterConfig(environ).pc = "exited"
                         THEN COROOT_PROJECT
                         ELSE EnvGet(environ, "COROOT_PROJECT", "")
    /\ UNCHANGED <<environ, requests, price_lookup, servers, total_hourly, total_vcpus,
                   total_ram_gb, per_memory, per_cpu, projects, resp>>

\* lines 82-94: fetch the pricing catalog and index it
FetchPricing ==
    /\ pc = "fetch_pricing"
    /\ \E response \in HetznerResponses(PricingCatalogs) :
         LET got == HetznerGet(response)
         IN  /\ requests' = Append(requests,
                     Request("hetzner", "GET", <<"v1", "pricing">>, NoBody,
                             response.status, got))
             /\ price_lookup' = IF got.raised # "" THEN price_lookup
                                ELSE BuildPriceLookup(got.value)
             /\ Goto(AfterFetchPricing(got))
    /\ UNCHANGED <<environ, servers, total_hourly, total_vcpus, total_ram_gb, per_memory,
                   per_cpu, COROOT_PROJECT, projects, resp>>

\* lines 96-100: fetch the active servers, stop on an empty list
FetchServers ==
    /\ pc = "fetch_servers"
    /\ \E response \in HetznerResponses(Inventories) :
         LET got == HetznerGet(response)
         IN  /\ requests' = Append(requests,
                     Request("hetzner", "GET", <<"v1", "servers">>, NoBody,
                             response.status, got))
             /\ servers' = IF got.raised # "" THEN servers ELSE got.value
             /\ Goto(AfterFetchServers(got))
    /\ UNCHANGED <<environ, price_lookup, total_hourly, total_vcpus, total_ram_gb,
                   per_memory, per_cpu, COROOT_PROJECT, projects, resp>>

\* lines 104-129: fold the servers into the totals, stop when nothing was priced
AggregateServers ==
    /\ pc = "aggregate"
    /\ LET totals == Aggregate(price_lookup, servers)
       IN  /\ total_hourly' = totals.hourly
           /\ total_vcpus' = totals.vcpus
           /\ total_ram_gb' = totals.ram_gb
           /\ Goto(AfterAggregate(totals))
    /\ UNCHANGED <<environ, requests, price_lookup, servers, per_memory, per_cpu,
                   COROOT_PROJECT, projects, resp>>

\* lines 137-145: solve for the two rates and assert the reconstruction
DeriveRates ==
    /\ pc = "derive"
    /\ LET step == AfterDerive(total_hourly, total_vcpus, total_ram_gb)
       IN  /\ Goto(step)
           /\ IF step.diagnostic = "ZeroDivisionError"
              THEN UNCHANGED <<per_memory, per_cpu>>
              ELSE /\ per_memory' = PerMemory(total_hourly, total_vcpus, total_ram_gb)
                   /\ per_cpu' = PerCpu(PerMemory(total_hourly, total_vcpus, total_ram_gb))
    /\ UNCHANGED <<environ, requests, price_lookup, servers, total_hourly, total_vcpus,
                   total_ram_gb, COROOT_PROJECT, projects, resp>>

\* lines 149-155: log in, then enter step 5 or skip it
Login ==
    /\ pc = "login"
    /\ \E response \in LoginResponses :
         LET got == CorootRequest(response)
         IN  /\ requests' = Append(requests,
                     Request("coroot", "POST", <<"api", "login">>, LoginBody,
                             response.status, got))
             /\ Goto(AfterLogin(got, COROOT_PROJECT))
    /\ UNCHANGED <<environ, price_lookup, servers, total_hourly, total_vcpus, total_ram_gb,
                   per_memory, per_cpu, COROOT_PROJECT, projects, resp>>

\* lines 156-167: ask for the project list and take its first entry
ListProjects ==
    /\ pc = "list_projects"
    /\ \E response \in ListResponses :
         LET got == CorootRequest(response)
             branch == ListBranch(got, projects, COROOT_PROJECT)
         IN  /\ requests' = Append(requests,
                     Request("coroot", "GET", <<"api", "projects">>, NoBody,
                             response.status, got))
             /\ projects' = branch.projects
             /\ COROOT_PROJECT' = branch.project
             /\ Goto(branch.step)
    /\ UNCHANGED <<environ, price_lookup, servers, total_hourly, total_vcpus, total_ram_gb,
                   per_memory, per_cpu, resp>>

\* lines 168-181: probe the overview of "default"
ProbeDefault ==
    /\ pc = "probe"
    /\ \E response \in ProbeResponses :
         LET got == CorootRequest(response)
             branch == ProbeBranch(got, COROOT_PROJECT)
         IN  /\ requests' = Append(requests,
                     Request("coroot", "GET", OverviewEndpoint("default"), NoBody,
                             response.status, got))
             /\ resp' = IF got.raised = "" THEN got.value ELSE resp
             /\ COROOT_PROJECT' = branch.project
             /\ Goto(branch.step)
    /\ UNCHANGED <<environ, price_lookup, servers, total_hourly, total_vcpus, total_ram_gb,
                   per_memory, per_cpu, projects>>

\* lines 185-188: post the rates
UpdatePricing ==
    /\ pc = "update"
    /\ \E response \in UpdateResponses :
         LET got == CorootRequest(response)
         IN  /\ requests' = Append(requests,
                     Request("coroot", "POST", PricingEndpoint(COROOT_PROJECT),
                             RatesBody(per_cpu, per_memory), response.status, got))
             /\ Goto(AfterUpdate(got))
    /\ UNCHANGED <<environ, price_lookup, servers, total_hourly, total_vcpus, total_ram_gb,
                   per_memory, per_cpu, COROOT_PROJECT, projects, resp>>

Next ==
    \/ Config
    \/ FetchPricing
    \/ FetchServers
    \/ AggregateServers
    \/ DeriveRates
    \/ Login
    \/ ListProjects
    \/ ProbeDefault
    \/ UpdatePricing

Spec == Init /\ [][Next]_vars

\* lines 53 and 72: every call is made with timeout=15, so it returns a response or
\* raises within bounded time, and the interpreter goes on to the next statement
FairSpec == Spec /\ WF_vars(Next)

-----------------------------------------------------------------------------
(* Vocabulary of the properties *)

IsLogin(r) == r.api = "coroot" /\ r.path = <<"api", "login">>

IsProjectList(r) == r.api = "coroot" /\ r.path = <<"api", "projects">>

IsOverviewProbe(r) == r.api = "coroot" /\ Len(r.path) = 4 /\ r.path[4] = "overview"

IsPricingUpdate(r) ==
    r.api = "coroot" /\ r.method = "POST" /\ Len(r.path) = 4
        /\ r.path[4] = "custom_cloud_pricing"

IsCoroot(r) == r.api = "coroot"

\* the HTTP status of the response is a success status
Succeeded(r) == r.status >= 200 /\ r.status < 300

Indices == 1..Len(requests)

LoginIssued == \E i \in Indices : IsLogin(requests[i])
ListIssued == \E i \in Indices : IsProjectList(requests[i])
ProbeIssued == \E i \in Indices : IsOverviewProbe(requests[i])
UpdateIssued == \E i \in Indices : IsPricingUpdate(requests[i])
CorootContacted == \E i \in Indices : IsCoroot(requests[i])

\* the configuration names the project
ExplicitProject == environ.COROOT_PROJECT # Unset /\ environ.COROOT_PROJECT # ""

Aborted == pc = "exited" /\ exit_code = "1"

-----------------------------------------------------------------------------
(* Properties of the session: login, discovery, update *)

\* C1: whenever the update request has been sent, an earlier login request got a
\* success status, and the project it targets was either configured or comes from
\* an earlier discovery request (project list or overview probe) that got a success
\* status.
C1_UpdateOnlyWhenReady ==
    \A i \in Indices :
        IsPricingUpdate(requests[i]) =>
            /\ \E j \in 1..(i - 1) : IsLogin(requests[j]) /\ Succeeded(requests[j])
            /\ \/ ExplicitProject
               \/ \E k \in 1..(i - 1) :
                     /\ IsProjectList(requests[k]) \/ IsOverviewProbe(requests[k])
                     /\ Succeeded(requests[k])
            /\ requests[i].path[3] = COROOT_PROJECT

\* C1 witness: the update was sent in a run that had to discover its project
C1_Witness ==
    /\ UpdateIssued
    /\ ~ExplicitProject
    /\ \E j \in Indices : IsLogin(requests[j]) /\ Succeeded(requests[j])

\* C2: a login request answered with a non-success HTTP status is the last request
\* of the run, and the run has ended with status 1 on the error raised for an HTTP
\* status: no project list, no overview probe and no update follows.
C2_LoginRejectedAborts ==
    \A i \in Indices :
        (IsLogin(requests[i]) /\ requests[i].status >= 300) =>
            /\ Aborted
            /\ diagnostic = "RuntimeError"
            /\ i = Len(requests)
            /\ ~ListIssued /\ ~ProbeIssued /\ ~UpdateIssued

\* C2 witness: the login was answered 401
C2_Witness == \E i \in Indices : IsLogin(requests[i]) /\ requests[i].status = 401

\* C3: the pricing write is the last request of the run and there is at most one; a
\* run that has ended with status 1 anywhere before the write has written nothing.
C3_WriteIsLast ==
    /\ \A i \in Indices : IsPricingUpdate(requests[i]) => i = Len(requests)
    /\ (Aborted /\ (requests = <<>> \/ ~IsPricingUpdate(requests[Len(requests)])))
           => ~UpdateIssued
    /\ (Aborted /\ diagnostic \in {EmptyInventory, NoPriceableServers,
                                   ProjectDiscoveryError, "AssertionError"})
           => ~UpdateIssued

\* C3 witness: a run that went through login, project list and probe, then wrote,
\* and had the write rejected
C3_Witness ==
    /\ ListIssued /\ ProbeIssued
    /\ IsPricingUpdate(requests[Len(requests)])
    /\ Aborted

\* the choice C4 describes: the name, or the id when there is no name
ClaimedChoice(entry) == IF entry.name # Unset /\ entry.name # "" THEN entry.name ELSE entry.id

\* the project list came back as a non-empty list whose first entry is an object
\* with a non-empty name or a non-empty id
ListReturnedProjects ==
    /\ \E k \in Indices : IsProjectList(requests[k]) /\ requests[k].outcome = "ok"
    /\ projects.j = "list"
    /\ projects.items # <<>>
    /\ projects.items[1].is_dict
    /\ projects.items[1].name \notin {Unset, ""} \/ projects.items[1].id \notin {Unset, ""}

\* C4 (as claimed): with no configured project and a non-empty project list, no
\* overview probe is made and the update targets the first entry's name, or its id
\* when it has no name, whatever the later entries are.
C4_FirstEntryDecides ==
    (~ExplicitProject /\ ListReturnedProjects) =>
        /\ pc # "probe"
        /\ ~ProbeIssued
        /\ \A i \in Indices :
              IsPricingUpdate(requests[i]) =>
                  requests[i].path[3] = ClaimedChoice(projects.items[1])

\* the project list request failed, or returned nothing to choose from
ListFailedOrEmpty ==
    \E k \in Indices :
        /\ IsProjectList(requests[k])
        /\ requests[k].outcome # "ok" \/ projects = JsonList(<<>>)

C6_BothFailGiveDiscoveryError ==
    (/\ ~ExplicitProject
     /\ \E k \in Indices : IsProjectList(requests[k]) /\ ~Succeeded(requests[k])
     /\ \E i \in Indices : IsOverviewProbe(requests[i]) /\ ~Succeeded(requests[i]))
        => /\ Aborted
           /\ diagnostic = ProjectDiscoveryError
           /\ ~UpdateIssued

\* C7: with a project named by the configuration, no project list and no overview
\* probe is ever requested, and the update goes to the endpoint of exactly that name.
C7_ExplicitProjectSkipsDiscovery ==
    ExplicitProject =>
        /\ pc \notin {"list_projects", "probe"}
        /\ ~ListIssued
        /\ ~ProbeIssued
        /\ pc = "update" => COROOT_PROJECT = environ.COROOT_PROJECT
        /\ \A i \in Indices :
              IsPricingUpdate(requests[i]) =>
                  requests[i].path = <<"api", "project", environ.COROOT_PROJECT,
                                       "custom_cloud_pricing">>

\* C7 witness: the update was sent to the configured project
C7_Witness ==
    /\ ExplicitProject
    /\ \E i \in Indices : IsPricingUpdate(requests[i]) /\ requests[i].path[3] = "myproject"

-----------------------------------------------------------------------------
(* Properties of the aggregation *)

\* the server's (server_type, location) is a key of the catalog
InCatalog(server) ==
    \E t \in DOMAIN price_lookup :
        t = server.stype /\ \E l \in DOMAIN price_lookup[t] : l = server.location

RECURSIVE SumSeq(_)
SumSeq(numbers) ==
    IF numbers = <<>> THEN 0 ELSE numbers[1] + SumSeq(Tail(numbers))

PricedServers == SelectSeq(servers, LAMBDA s : InCatalog(s))

RemoveAt(list, i) == SubSeq(list, 1, i - 1) \o SubSeq(list, i + 1, Len(list))

\* the loop over the servers has run
Folded == servers # <<>> /\ pc # "aggregate"

\* C8: once the servers are folded, each total is the sum over exactly the servers
\* whose (server_type, location) is in the catalog, and folding the list without any
\* one server that has no catalog entry gives the same totals.
C8_TotalsSumPricedServers ==
    Folded =>
        /\ total_hourly = SumSeq([i \in 1..Len(PricedServers) |->
                                    price_lookup[PricedServers[i].stype]
                                                [PricedServers[i].location].hourly])
        /\ total_vcpus = SumSeq([i \in 1..Len(PricedServers) |-> PricedServers[i].vcpus])
        /\ total_ram_gb = SumSeq([i \in 1..Len(PricedServers) |-> PricedServers[i].ram_gb])
        /\ \A i \in 1..Len(servers) :
              ~InCatalog(servers[i]) =>
                  Aggregate(price_lookup, RemoveAt(servers, i))
                      = Totals(total_hourly, total_vcpus, total_ram_gb)

\* C8 witness: a folded list with a priced and an unpriced server
C8_Witness ==
    /\ Folded
    /\ \E i \in 1..Len(servers) : ~InCatalog(servers[i])
    /\ \E i \in 1..Len(servers) : InCatalog(servers[i])
    /\ total_vcpus > 0

\* C9: when no server of a non-empty list has a catalog entry, the run has ended
\* with the no-priceable-servers error once the list is folded: the division was
\* never evaluated (no rate was assigned, no ZeroDivisionError) and nothing was sent
\* to the monitoring application.
C9_NothingPricedAborts ==
    (Folded /\ \A i \in 1..Len(servers) : ~InCatalog(servers[i])) =>
        /\ Aborted
        /\ diagnostic = NoPriceableServers
        /\ per_memory = RatZero /\ per_cpu = RatZero
        /\ ~CorootContacted

\* C9 witness: two servers, neither priced, folded
C9_Witness ==
    /\ Folded
    /\ Len(servers) = 2
    /\ \A i \in 1..Len(servers) : ~InCatalog(servers[i])

-----------------------------------------------------------------------------
(* Properties of the rates and of the run as a whole *)

RatPositive(r) == r.num > 0 /\ r.den > 0

\* C11 (as claimed): both rates carried by the update request are strictly positive.
C11_RatesPositive ==
    \A i \in Indices :
        IsPricingUpdate(requests[i]) =>
            RatPositive(requests[i].body.cpu) /\ RatPositive(requests[i].body.memory)

\* C11 (amended): the update request carries per_cpu and per_memory as derived, and
\* neither is negative: both are strictly positive when the fleet's total hourly
\* cost is positive, and both are zero when that total is zero (every priced server
\* has an hourly price of 0).
C11_RatesFollowCost ==
    \A i \in Indices :
        IsPricingUpdate(requests[i]) =>
            /\ requests[i].body = RatesBody(per_cpu, per_memory)
            /\ total_hourly >= 0
            /\ total_hourly > 0 => RatPositive(per_cpu) /\ RatPositive(per_memory)
            /\ total_hourly = 0 => per_cpu = RatZero /\ per_memory = RatZero

\* C11 witness: an update sent for a fleet that costs something
C11_Witness ==
    /\ UpdateIssued
    /\ total_hourly > 0
    /\ RatPositive(per_cpu)

IsInventoryFetch(r) == r.api = "hetzner" /\ r.path = <<"v1", "servers">>

IsCatalogFetch(r) == r.api = "hetzner" /\ r.path = <<"v1", "pricing">>

\* the inventory request returned, and the list it returned is empty
InventoryCameBackEmpty ==
    /\ \E i \in Indices : IsInventoryFetch(requests[i]) /\ requests[i].outcome = "ok"
    /\ servers = <<>>

\* C12: when the provider returns an empty server list, the run has ended with the
\* empty-inventory error right after that request: the fold never started (the
\* position "aggregate" is never taken and the totals are untouched), no rate was
\* derived, and nothing was sent to the monitoring application.
C12_EmptyInventoryAborts ==
    InventoryCameBackEmpty =>
        /\ Aborted
        /\ diagnostic = EmptyInventory
        /\ IsInventoryFetch(requests[Len(requests)])
        /\ total_hourly = 0 /\ total_vcpus = 0 /\ total_ram_gb = 0
        /\ per_memory = RatZero /\ per_cpu = RatZero
        /\ ~CorootContacted

\* C12 witness: the catalog was fetched and indexed, then the inventory came back empty
C12_Witness ==
    /\ InventoryCameBackEmpty
    /\ DOMAIN price_lookup # {}

\* a required credential is absent or empty
CredentialMissing ==
    \E v \in {"HETZNER_TOKEN", "COROOT_EMAIL", "COROOT_PASSWORD"} :
        environ[v] = Unset \/ environ[v] = ""

\* a fatal condition has occurred, read off the requests and the script's variables
\* and not off the exit status
FatalCondition ==
    \/ CredentialMissing /\ pc # "config"
    \/ \E i \in Indices :
          /\ IsCatalogFetch(requests[i]) \/ IsInventoryFetch(requests[i])
                \/ IsLogin(requests[i]) \/ IsPricingUpdate(requests[i])
          /\ requests[i].outcome # "ok"
    \/ InventoryCameBackEmpty
    \/ Folded /\ total_vcpus = 0
    \/ \E i \in Indices :
          /\ IsOverviewProbe(requests[i])
          /\ requests[i].outcome # "ok" \/ resp = JsonNull

\* every stage has completed
AllStagesCompleted ==
    /\ ~CredentialMissing
    /\ Len(requests) >= 4
    /\ IsCatalogFetch(requests[1]) /\ Succeeded(requests[1])
    /\ IsInventoryFetch(requests[2]) /\ Succeeded(requests[2])
    /\ Folded /\ total_vcpus > 0
    /\ per_memory = PerMemory(total_hourly, total_vcpus, total_ram_gb)
    /\ per_cpu = PerCpu(per_memory)
    /\ IsLogin(requests[3]) /\ Succeeded(requests[3]) /\ requests[3].outcome = "ok"
    /\ \/ ExplicitProject
       \/ \E k \in Indices :
             /\ IsProjectList(requests[k]) \/ IsOverviewProbe(requests[k])
             /\ requests[k].outcome = "ok"
    /\ IsPricingUpdate(requests[Len(requests)])
    /\ Succeeded(requests[Len(requests)])
    /\ requests[Len(requests)].outcome = "ok"

\* C14: the run has exited with status 0 only if every stage completed, the update
\* included; once a fatal condition has occurred the run has exited with status 1.
C14_ZeroOnlyOnFullSuccess ==
    /\ (pc = "exited" /\ exit_code = "0") => AllStagesCompleted /\ ~FatalCondition
    /\ FatalCondition => pc = "exited" /\ exit_code = "1" /\ diagnostic # ""
    /\ pc = "exited" => exit_code \in {"0", "1"}
    /\ pc # "exited" => exit_code = Unset

\* C14 witness: the update was rejected with an HTTP error status
C14_Witness ==
    /\ UpdateIssued
    /\ requests[Len(requests)].status >= 300
    /\ exit_code = "1"

\* the message of line 36 for a variable
NotSetMessage(v) ==
    CASE v = "HETZNER_TOKEN" -> "error: HETZNER_TOKEN not set"
      [] v = "COROOT_EMAIL" -> "error: COROOT_EMAIL not set"
      [] OTHER -> "error: COROOT_PASSWORD not set"

\* C15: when a required credential is absent or empty, the run never gets past the
\* configuration step: it has sent no request to the provider or to the monitoring
\* application, and once it has taken its first step it has ended with status 1
\* on the "not set" message of a credential that is indeed missing.
C15_MissingCredentialStopsAtStartup ==
    CredentialMissing =>
        /\ requests = <<>>
        /\ pc \in {"config", "exited"}
        /\ pc = "exited" =>
              /\ exit_code = "1"
              /\ \E v \in {"HETZNER_TOKEN", "COROOT_EMAIL", "COROOT_PASSWORD"} :
                    /\ environ[v] \in {Unset, ""}
                    /\ diagnostic = NotSetMessage(v)

\* C15 witness: the token is set, the password is empty, and the run has ended
C15_Witness ==
    /\ environ.HETZNER_TOKEN = "set"
    /\ environ.COROOT_EMAIL = "set"
    /\ environ.COROOT_PASSWORD = ""
    /\ pc = "exited"

\* the stage a request belongs to: 1 catalog, 2 inventory, 3 aggregation and rate
\* derivation (no request), 4 login, 5 project discovery, 6 update
StageOf(r) ==
    CASE IsCatalogFetch(r) -> 1
      [] IsInventoryFetch(r) -> 2
      [] IsLogin(r) -> 4
      [] IsProjectList(r) \/ IsOverviewProbe(r) -> 5
      [] OTHER -> 6

\* the rates have been derived from the totals of the whole inventory
RatesDerived ==
    /\ Folded
    /\ total_vcpus > 0
    /\ per_memory = PerMemory(total_hourly, total_vcpus, total_ram_gb)
    /\ per_cpu = PerCpu(per_memory)

\* C16: the requests of a run follow the order of the stages; a request that opens a
\* later stage comes directly after a request that returned normally; the inventory
\* is asked for only after the catalog was received, the login is sent only after the
\* inventory was received, folded and turned into rates, discovery starts only after
\* a login that returned, and the update is sent only after discovery returned a
\* project or was skipped for an explicit one.
C16_StagesInOrder ==
    /\ \A i, j \in Indices : i < j => StageOf(requests[i]) <= StageOf(requests[j])
    /\ \A j \in Indices :
          /\ j > 1 /\ StageOf(requests[j]) > StageOf(requests[j - 1])
                => requests[j - 1].outcome = "ok"
          /\ StageOf(requests[j]) >= 2
                => j > 1 /\ IsCatalogFetch(requests[1]) /\ requests[1].outcome = "ok"
          /\ StageOf(requests[j]) >= 4
                => /\ j > 2
                   /\ IsInventoryFetch(requests[2]) /\ requests[2].outcome = "ok"
                   /\ RatesDerived
          /\ StageOf(requests[j]) >= 5
                => j > 3 /\ IsLogin(requests[3]) /\ requests[3].outcome = "ok"
          /\ StageOf(requests[j]) = 6
                => \/ ExplicitProject /\ j = 4
                   \/ ~ExplicitProject /\ j > 4 /\ StageOf(requests[j - 1]) = 5
    /\ pc \in {"aggregate", "derive", "login"} => Len(requests) = 2
    /\ pc = "login" => RatesDerived

\* C16 witness: a run that went through every stage, discovery with both of its
\* requests, and sent the update
C16_Witness == ListIssued /\ ProbeIssued /\ UpdateIssued

\* two entries of the log are the same request
SameRequest(a, b) == a.api = b.api /\ a.method = b.method /\ a.path = b.path

\* C17: no request appears twice in the log of a run, whatever came back: at most
\* one catalog fetch, one inventory fetch, one login, one project list, one overview
\* probe and one update, so at most six requests in all.
C17_NothingRetried ==
    /\ \A i, j \in Indices : SameRequest(requests[i], requests[j]) => i = j
    /\ \A i, j \in Indices :
          (StageOf(requests[i]) = StageOf(requests[j]) /\ i # j)
             => /\ StageOf(requests[i]) = 5
                /\ IsProjectList(requests[i]) # IsProjectList(requests[j])
    /\ Len(requests) <= 6

\* C17 witness: a run that made six requests and ended on a failed one
C17_Witness ==
    /\ Len(requests) = 6
    /\ requests[6].outcome # "ok"
    /\ pc = "exited"

\* C18: every run, in which each network call comes back with a response, an error or
\* a timeout, reaches its end and stays there, with exit status 0 or 1.
C18_RunTerminates == <>[](pc = "exited" /\ exit_code \in {"0", "1"})

\* C18 witness: a call after the first one got no response before the timeout, and the
\* run ended there
C18_Witness ==
    /\ Len(requests) > 1
    /\ requests[Len(requests)].status = 0
    /\ requests[Len(requests)].outcome = "URLError"
    /\ pc = "exited"

\* the project an update request is addressed to
Target(r) == r.path[3]

\* the project list came back as a non-empty list whose first entry is an object
ListGaveFirstEntry ==
    /\ \E k \in Indices : IsProjectList(requests[k]) /\ requests[k].outcome = "ok"
    /\ projects.j = "list"
    /\ projects.items # <<>>
    /\ projects.items[1].is_dict

\* the overview probe of "default" came back with a body
ProbeConfirmedDefault ==
    /\ \E k \in Indices :
          /\ IsOverviewProbe(requests[k])
          /\ requests[k].path[3] = "default"
          /\ Succeeded(requests[k])
          /\ requests[k].outcome = "ok"
    /\ resp # JsonNull

\* C19 as stated: the target of the update is the configured name, or the name or
\* the id of the first entry of a non-empty project list, or "default" after a
\* successful overview probe of "default".
C19_TargetIsConfiguredListedOrProbed ==
    \A i \in Indices :
        IsPricingUpdate(requests[i]) =>
            \/ ExplicitProject /\ Target(requests[i]) = environ.COROOT_PROJECT
            \/ /\ ListGaveFirstEntry
               /\ Target(requests[i]) \in
                     {projects.items[1].name, projects.items[1].id} \ {Unset}
            \/ Target(requests[i]) = "default" /\ ProbeConfirmedDefault

\* what the first entry stands for: its name when that is a non-empty string, else
\* its id when it has one, else the fixed name "default"
FirstEntryChoice(entry) ==
    IF entry.name # Unset /\ entry.name # "" THEN entry.name
    ELSE IF entry.id # Unset THEN entry.id
    ELSE "default"

\* C19, amended: the target of the update is the configured name (no discovery
\* request made), or "default" after a probe of "default" that returned a body, or,
\* with no probe made, what the first entry of the project list stands for: its
\* name, else its id, else "default" for an entry that has neither.
C19_TargetIsConfiguredProbedOrFirstEntry ==
    \A i \in Indices :
        IsPricingUpdate(requests[i]) =>
            \/ /\ ExplicitProject
               /\ Target(requests[i]) = environ.COROOT_PROJECT
               /\ ~ListIssued /\ ~ProbeIssued
            \/ /\ ~ExplicitProject
               /\ ProbeIssued
               /\ ProbeConfirmedDefault
               /\ Target(requests[i]) = "default"
            \/ /\ ~ExplicitProject
               /\ ~ProbeIssued
               /\ ListGaveFirstEntry
               /\ Target(requests[i]) = FirstEntryChoice(projects.items[1])

\* C19 witness: the update went to "default" for a first entry without name and
\* id, and no probe was made
C19_Witness ==
    /\ UpdateIssued
    /\ ~ProbeIssued
    /\ ListGaveFirstEntry
    /\ projects.items[1].name = Unset
    /\ projects.items[1].id = Unset
    /\ Target(requests[Len(requests)]) = "default"

\* C20: every update request is addressed to a project whose identifier is a
\* non-empty string.
C20_TargetNeverEmpty ==
    \A i \in Indices :
        IsPricingUpdate(requests[i]) =>
            Target(requests[i]) # "" /\ Target(requests[i]) # Unset

=============================================================================
